---- MODULE Spec2Model ----
(***************************************************************************)
(* Verification model of the gostatsd daemon entry point                   *)
(* (cmd/gostatsd/main.go): configuration, server construction, the         *)
(* cancellation context, the signal watcher goroutine and process exit,    *)
(* together with the ingestion queue and the aggregation worker that the   *)
(* constructed Server drives.                                              *)
(***************************************************************************)
EXTENDS Integers, Sequences, FiniteSets, TLC

\* ------------------------------------------------------------------ bounds
MaxBackends == 2
MaxPercentiles == 2
MaxSignals == 2

\* ------------------------------------------------------- process lifecycle
VARIABLES
  pc,            \* position of the main goroutine
  versionFlag,   \* --version was present on the command line
  version,       \* the bool returned by setupConfiguration
  setupErr,      \* the error returned by setupConfiguration
  profiler,      \* the profiler goroutine of run: "off", "serving", "failed"
  cloud,         \* the cloud handler factory: "unset", "nil", "factory"
  cloudInited,   \* InitCloudProvider has returned nil
  backendNames,  \* v.GetStringSlice(statsd.ParamBackends)
  backendsList,  \* the slice filled by the loop of constructServer
  idx,           \* loop index of the backend loop (1-based)
  initLog,       \* names handed to backends.InitBackend, in call order
  server,        \* the *statsd.Server of constructServer: <<>> is nil
  constructErr,  \* the error returned by constructServer
  ctx,           \* the context of run: "none", "active", "cancelled"
  notify,        \* signal.Notify has registered the channel c
  sigChan,       \* number of signals buffered in c (capacity 1)
  sigCount,      \* signals delivered to the process so far
  sigDuringRun,  \* a signal was delivered while Server.Run was executing
  watcher,       \* the goroutine of cancelOnInterrupt
  watcherCancels,\* calls of f() made by the watcher goroutine
  srv,           \* Server.Run: "idle", "running", "draining", "returned"
  srvResult,     \* the error returned by Server.Run
  srvWhy,        \* why Server.Run returned
  runErr,        \* the error returned by run
  exit,          \* the process: "running", "returned", "fatal"
  fatalCount,    \* calls of logrus.Fatalf
  printed        \* the version line was printed

lifeVars == <<pc, versionFlag, version, setupErr, profiler, cloud,
              cloudInited, backendNames, backendsList, idx, initLog, server,
              constructErr, ctx, notify, sigChan, sigCount, sigDuringRun,
              watcher, watcherCancels, srv, srvResult, srvWhy, runErr, exit,
              fatalCount, printed>>

setupVars == <<versionFlag, version, setupErr>>
constructVars == <<cloud, cloudInited, backendNames, backendsList, idx,
                   initLog, server, constructErr>>
sigVars == <<ctx, notify, sigChan, sigCount, sigDuringRun, watcher,
             watcherCancels>>
srvVars == <<srv, srvResult, srvWhy>>

\* ------------------------------------------------------- ingestion queue
VARIABLES
  maxQueueSize,  \* Server.MaxQueueSize, the capacity of the queue
  queue,         \* the items waiting for the aggregation worker
  dropCount,     \* the drop counter of the dispatcher
  offered,       \* enqueue attempts made so far
  lastEnqueue    \* outcome of the last attempt: "none", "accepted", "dropped"

queueVars == <<maxQueueSize, queue, dropCount, offered, lastEnqueue>>

\* ------------------------------------------------------ counter aggregation
VARIABLES
  counters,      \* the shard: identity -> [value, total]
  emitted,       \* the snapshot of the last flush: identity -> [delta, total]
  windowIncs,    \* increments folded since the last flush, per identity
  flushedIncs,   \* increments of the window the last flush closed
  deltas,        \* every delta flushed so far, per identity
  flushes        \* flushes so far

counterVars == <<counters, emitted, windowIncs, flushedIncs, deltas, flushes>>

\* --------------------------------------------------------------- expiry
VARIABLES
  now,           \* the clock, in periods of the expiry scan
  expiryInterval,\* Server.ExpiryInterval as applied to each metric kind
  lastSeen,      \* the shard: identity -> time of its last activity
  snapshotIds,   \* identities of the last snapshot
  snapshots,     \* snapshots taken so far
  lastActivity,  \* time of the last activity event, per identity (-1: none)
  activeSinceCheck \* identities with activity since the last expiry check

expiryVars == <<now, expiryInterval, lastSeen, snapshotIds, snapshots,
                lastActivity, activeSinceCheck>>

pipeVars == <<queueVars, counterVars, expiryVars>>

vars == <<lifeVars, pipeVars>>

\* Error values.  context.Canceled is compared by identity in run, so an
\* error that merely wraps it is a different value.
Nil == "nil"
Canceled == "context.Canceled"
ErrHelp == "pflag.ErrHelp"

\* The nil *statsd.Server.
NoServer == <<>>

\* The signal channel is made with capacity 1.
SigChanCap == 1

\* Backend names a configuration may list; InitBackend rejects the last one.
BackendNames == {"graphite", "stdout", "bogus"}
FailingBackends == {"bogus"}

\* Percentile strings a configuration may list.
PercentStrings == {"90", "x"}

SeqsUpTo(S, n) == UNION {[1..k -> S] : k \in 0..n}

\* backends.InitBackend: a backend value or an error.
InitBackend(name) ==
  IF name \in FailingBackends
    THEN [err |-> "backend:" \o name, backend |-> "nilBackend"]
    ELSE [err |-> Nil, backend |-> name]

\* strconv.ParseFloat on the strings of PercentStrings.
ParseFloat(s) ==
  IF s = "90" THEN [err |-> Nil, val |-> 90]
  ELSE [err |-> "strconv:" \o s, val |-> 0]

\* getPercentiles: stops at the first string that does not parse.
RECURSIVE getPercentilesFrom(_, _, _)
getPercentilesFrom(s, i, acc) ==
  IF i > Len(s) THEN [err |-> Nil, pt |-> acc]
  ELSE LET r == ParseFloat(s[i]) IN
       IF r.err # Nil THEN [err |-> r.err, pt |-> <<>>]
       ELSE getPercentilesFrom(s, i + 1, [acc EXCEPT ![i] = r.val])

getPercentiles(s) == getPercentilesFrom(s, 1, [i \in 1..Len(s) |-> 0])

LifeInit ==
  /\ pc = "setup"
  /\ versionFlag = FALSE
  /\ version = FALSE
  /\ setupErr = Nil
  /\ profiler = "off"
  /\ cloud = "unset"
  /\ cloudInited = FALSE
  /\ backendNames = <<>>
  /\ backendsList = <<>>
  /\ idx = 1
  /\ initLog = <<>>
  /\ server = NoServer
  /\ constructErr = Nil
  /\ ctx = "none"
  /\ notify = FALSE
  /\ sigChan = 0
  /\ sigCount = 0
  /\ sigDuringRun = FALSE
  /\ watcher = "none"
  /\ watcherCancels = 0
  /\ srv = "idle"
  /\ srvResult = Nil
  /\ srvWhy = "none"
  /\ runErr = "unset"
  /\ exit = "running"
  /\ fatalCount = 0
  /\ printed = FALSE

\* setupConfiguration: every error path returns (nil, false, err).
setupConfiguration ==
  /\ exit = "running" /\ pc = "setup"
  /\ \E ver \in BOOLEAN, parse \in {"ok", "help", "bad"},
        config \in {"none", "ok", "unreadable"} :
       LET err == IF parse = "help" THEN ErrHelp
                  ELSE IF parse = "bad" THEN "flag error"
                  ELSE IF config = "unreadable" THEN "config error"
                  ELSE Nil
       IN /\ versionFlag' = ver
          /\ setupErr' = err
          /\ version' = IF err = Nil THEN ver ELSE FALSE
  /\ pc' = "main"
  /\ UNCHANGED <<profiler, constructVars, sigVars, srvVars, runErr, exit,
                 fatalCount, printed>>
  /\ UNCHANGED pipeVars

\* main, lines 45-50: a configuration error other than ErrHelp is fatal.
mainConfigError ==
  /\ exit = "running" /\ pc = "main" /\ setupErr # Nil
  /\ IF setupErr = ErrHelp
       THEN exit' = "returned" /\ UNCHANGED fatalCount
       ELSE exit' = "fatal" /\ fatalCount' = fatalCount + 1
  /\ pc' = "done"
  /\ UNCHANGED <<setupVars, profiler, constructVars, sigVars, srvVars,
                 runErr, printed>>
  /\ UNCHANGED pipeVars

\* Variant of mainVersion without the return: it prints and goes on to run.
mainVersionFallsThrough ==
  /\ exit = "running" /\ pc = "main" /\ setupErr = Nil /\ version
  /\ printed' = TRUE
  /\ pc' = "cloudFactory"
  /\ UNCHANGED <<setupVars, profiler, constructVars, sigVars, srvVars,
                 runErr, exit, fatalCount>>
  /\ UNCHANGED pipeVars

\* main, lines 51-54: print the version and return.
mainVersion ==
  /\ exit = "running" /\ pc = "main" /\ setupErr = Nil /\ version
  /\ printed' = TRUE
  /\ exit' = "returned"
  /\ pc' = "done"
  /\ UNCHANGED <<setupVars, profiler, constructVars, sigVars, srvVars,
                 runErr, fatalCount>>
  /\ UNCHANGED pipeVars

\* main, line 55 and run, lines 61-68: enter run, maybe start the profiler.
runStart ==
  /\ exit = "running" /\ pc = "main" /\ setupErr = Nil /\ ~version
  /\ \E profileAddr \in {"", "addr"} :
       profiler' = IF profileAddr # "" THEN "serving" ELSE "off"
  /\ pc' = "cloudFactory"
  /\ UNCHANGED <<setupVars, constructVars, sigVars, srvVars, runErr, exit,
                 fatalCount, printed>>
  /\ UNCHANGED pipeVars

\* The profiler goroutine: http.ListenAndServe returns and the error is
\* logged with Errorf, which does not end the process.
profilerFails ==
  /\ exit = "running" /\ profiler = "serving"
  /\ profiler' = "failed"
  /\ UNCHANGED <<pc, setupVars, constructVars, sigVars, srvVars, runErr,
                 exit, fatalCount, printed>>
  /\ UNCHANGED pipeVars

\* constructServer, lines 92-95: the cloud handler factory, which is nil
\* when no cloud provider is configured.
newCloudHandlerFactory ==
  /\ exit = "running" /\ pc = "cloudFactory"
  /\ \E r \in {"error", "nil", "factory"} :
       IF r = "error"
         THEN /\ constructErr' = "cloud factory error"
              /\ pc' = "constructed"
              /\ UNCHANGED cloud
         ELSE /\ cloud' = r
              /\ pc' = IF r = "factory" THEN "cloudInit" ELSE "backends"
              /\ UNCHANGED constructErr
  /\ UNCHANGED <<setupVars, profiler, cloudInited, backendNames,
                 backendsList, idx, initLog, server, sigVars, srvVars,
                 runErr, exit, fatalCount, printed>>
  /\ UNCHANGED pipeVars

\* constructServer, lines 96-100: InitCloudProvider on a non-nil factory.
initCloudProvider ==
  /\ exit = "running" /\ pc = "cloudInit" /\ cloud = "factory"
  /\ \E ok \in BOOLEAN :
       IF ok
         THEN cloudInited' = TRUE /\ pc' = "backends"
              /\ UNCHANGED constructErr
         ELSE constructErr' = "cloud provider error" /\ pc' = "constructed"
              /\ UNCHANGED cloudInited
  /\ UNCHANGED <<setupVars, profiler, cloud, backendNames, backendsList,
                 idx, initLog, server, sigVars, srvVars, runErr, exit,
                 fatalCount, printed>>
  /\ UNCHANGED pipeVars

\* constructServer, lines 102-103: read the names, make the slice.
getBackendNames ==
  /\ exit = "running" /\ pc = "backends"
  /\ \E names \in SeqsUpTo(BackendNames, MaxBackends) :
       /\ backendNames' = names
       /\ backendsList' = [i \in 1..Len(names) |-> "nilBackend"]
  /\ idx' = 1
  /\ pc' = "backendLoop"
  /\ UNCHANGED <<setupVars, profiler, cloud, cloudInited, initLog, server,
                 constructErr, sigVars, srvVars, runErr, exit, fatalCount,
                 printed>>
  /\ UNCHANGED pipeVars

\* Variant of initBackendStep that skips a failing backend and goes on.
initBackendStepContinue ==
  /\ exit = "running" /\ pc = "backendLoop" /\ idx <= Len(backendNames)
  /\ LET r == InitBackend(backendNames[idx]) IN
       /\ initLog' = Append(initLog, backendNames[idx])
       /\ backendsList' = IF r.err # Nil THEN backendsList
                          ELSE [backendsList EXCEPT ![idx] = r.backend]
       /\ idx' = idx + 1
  /\ UNCHANGED <<pc, setupVars, profiler, cloud, cloudInited, backendNames,
                 server, constructErr, sigVars, srvVars, runErr, exit,
                 fatalCount, printed>>
  /\ UNCHANGED pipeVars

\* constructServer, lines 104-110: one iteration of the backend loop.
initBackendStep ==
  /\ exit = "running" /\ pc = "backendLoop" /\ idx <= Len(backendNames)
  /\ LET r == InitBackend(backendNames[idx]) IN
       /\ initLog' = Append(initLog, backendNames[idx])
       /\ IF r.err # Nil
            THEN /\ constructErr' = r.err
                 /\ pc' = "constructed"
                 /\ UNCHANGED <<backendsList, idx>>
            ELSE /\ backendsList' = [backendsList EXCEPT ![idx] = r.backend]
                 /\ idx' = idx + 1
                 /\ UNCHANGED <<constructErr, pc>>
  /\ UNCHANGED <<setupVars, profiler, cloud, cloudInited, backendNames,
                 server, sigVars, srvVars, runErr, exit, fatalCount,
                 printed>>
  /\ UNCHANGED pipeVars

\* constructServer, lines 112-150: percentiles, then the Server literal.
createServer ==
  /\ exit = "running" /\ pc = "backendLoop" /\ idx > Len(backendNames)
  /\ \E s \in SeqsUpTo(PercentStrings, MaxPercentiles) :
       LET r == getPercentiles(s) IN
         IF r.err # Nil
           THEN constructErr' = r.err /\ UNCHANGED server
           ELSE /\ server' = <<[Backends |-> backendsList,
                                CloudHandlerFactory |-> cloud,
                                PercentThreshold |-> r.pt]>>
                /\ UNCHANGED constructErr
  /\ pc' = "constructed"
  /\ UNCHANGED <<setupVars, profiler, cloud, cloudInited, backendNames,
                 backendsList, idx, initLog, sigVars, srvVars, runErr, exit,
                 fatalCount, printed>>
  /\ UNCHANGED pipeVars

\* Variant of runConstructFailed that drops the construction error.
runConstructFailedSwallowed ==
  /\ exit = "running" /\ pc = "constructed" /\ constructErr # Nil
  /\ runErr' = Nil
  /\ pc' = "afterRun"
  /\ UNCHANGED <<setupVars, profiler, constructVars, sigVars, srvVars, exit,
                 fatalCount, printed>>
  /\ UNCHANGED pipeVars

\* run, lines 69-72: a construction error is returned as it is.
runConstructFailed ==
  /\ exit = "running" /\ pc = "constructed" /\ constructErr # Nil
  /\ runErr' = constructErr
  /\ pc' = "afterRun"
  /\ UNCHANGED <<setupVars, profiler, constructVars, sigVars, srvVars, exit,
                 fatalCount, printed>>
  /\ UNCHANGED pipeVars

\* run, lines 74-76 and cancelOnInterrupt, lines 166-169: the context, the
\* registration of the channel and the start of the watcher goroutine.
cancelOnInterrupt ==
  /\ exit = "running" /\ pc = "constructed" /\ constructErr = Nil
  /\ ctx' = "active"
  /\ notify' = TRUE
  /\ watcher' = "waiting"
  /\ pc' = "callRun"
  /\ UNCHANGED <<setupVars, profiler, constructVars, sigChan, sigCount,
                 sigDuringRun, watcherCancels, srvVars, runErr, exit,
                 fatalCount, printed>>
  /\ UNCHANGED pipeVars

\* Variant of serverRunCall that starts s.Run in a goroutine and leaves run
\* as soon as the context is done.
serverRunCallDetached ==
  /\ exit = "running"
  /\ \/ /\ pc = "callRun"
        /\ srv' = "running"
        /\ pc' = "inRun"
        /\ UNCHANGED <<srvResult, srvWhy, runErr>>
     \/ /\ pc = "inRun" /\ ctx = "cancelled"
        /\ runErr' = Nil
        /\ pc' = "afterRun"
        /\ UNCHANGED srvVars
  /\ UNCHANGED <<setupVars, profiler, constructVars, sigVars, exit,
                 fatalCount, printed>>
  /\ UNCHANGED pipeVars

\* run, line 78: call s.Run(ctx).
serverRunCall ==
  /\ exit = "running" /\ pc = "callRun"
  /\ srv' = "running"
  /\ pc' = "inRun"
  /\ UNCHANGED <<setupVars, profiler, constructVars, sigVars, srvResult,
                 srvWhy, runErr, exit, fatalCount, printed>>
  /\ UNCHANGED pipeVars

\* Variant of runAfterServer that treats context.Canceled as a failure.
runAfterServerCanceledFails ==
  /\ exit = "running" /\ pc = "inRun" /\ srv = "returned"
  /\ runErr' = IF srvResult # Nil
                 THEN "server error: " \o srvResult ELSE Nil
  /\ ctx' = "cancelled"
  /\ pc' = "afterRun"
  /\ UNCHANGED <<setupVars, profiler, constructVars, notify, sigChan,
                 sigCount, sigDuringRun, watcher, watcherCancels, srvVars,
                 exit, fatalCount, printed>>
  /\ UNCHANGED pipeVars

\* run, lines 78-81 with the deferred cancelFunc of line 75.
runAfterServer ==
  /\ exit = "running" /\ pc = "inRun" /\ srv = "returned"
  /\ runErr' = IF srvResult # Nil /\ srvResult # Canceled
                 THEN "server error: " \o srvResult ELSE Nil
  /\ ctx' = "cancelled"
  /\ pc' = "afterRun"
  /\ UNCHANGED <<setupVars, profiler, constructVars, notify, sigChan,
                 sigCount, sigDuringRun, watcher, watcherCancels, srvVars,
                 exit, fatalCount, printed>>
  /\ UNCHANGED pipeVars

\* main, lines 55-58: a non-nil error of run is fatal.
mainAfterRun ==
  /\ exit = "running" /\ pc = "afterRun"
  /\ IF runErr # Nil
       THEN exit' = "fatal" /\ fatalCount' = fatalCount + 1
       ELSE exit' = "returned" /\ UNCHANGED fatalCount
  /\ pc' = "done"
  /\ UNCHANGED <<setupVars, profiler, constructVars, sigVars, srvVars,
                 runErr, printed>>
  /\ UNCHANGED pipeVars

\* Delivery of os.Interrupt or SIGTERM once the channel is registered:
\* signal.Notify sends without blocking, so a signal that finds the
\* channel full is dropped.
signalDelivered ==
  /\ exit = "running" /\ notify /\ sigCount < MaxSignals
  /\ sigCount' = sigCount + 1
  /\ sigChan' = IF sigChan < SigChanCap THEN sigChan + 1 ELSE sigChan
  /\ sigDuringRun' = (sigDuringRun \/ srv \in {"running", "draining"})
  /\ UNCHANGED <<pc, setupVars, profiler, constructVars, ctx, notify,
                 watcher, watcherCancels, srvVars, runErr, exit, fatalCount,
                 printed>>
  /\ UNCHANGED pipeVars

\* The watcher goroutine, case <-ctx.Done().
watcherCtxDone ==
  /\ exit = "running" /\ watcher = "waiting" /\ ctx = "cancelled"
  /\ watcher' = "exited"
  /\ UNCHANGED <<pc, setupVars, profiler, constructVars, ctx, notify,
                 sigChan, sigCount, sigDuringRun, watcherCancels, srvVars,
                 runErr, exit, fatalCount, printed>>
  /\ UNCHANGED pipeVars

\* Variant of watcherSignal that receives the signal and forgets f().
watcherSignalNoCancel ==
  /\ exit = "running" /\ watcher = "waiting" /\ sigChan > 0
  /\ sigChan' = sigChan - 1
  /\ watcher' = "exited"
  /\ UNCHANGED <<pc, setupVars, profiler, constructVars, ctx, notify,
                 sigCount, sigDuringRun, watcherCancels, srvVars, runErr,
                 exit, fatalCount, printed>>
  /\ UNCHANGED pipeVars

\* Variant of watcherSignal with the select in a loop: the goroutine
\* keeps waiting after it has called f().
watcherSignalLoop ==
  /\ exit = "running" /\ watcher = "waiting" /\ sigChan > 0
  /\ sigChan' = sigChan - 1
  /\ ctx' = "cancelled"
  /\ watcherCancels' = watcherCancels + 1
  /\ UNCHANGED <<pc, setupVars, profiler, constructVars, notify, sigCount,
                 sigDuringRun, watcher, srvVars, runErr, exit, fatalCount,
                 printed>>
  /\ UNCHANGED pipeVars

\* The watcher goroutine, case <-c: call f() and return.
watcherSignal ==
  /\ exit = "running" /\ watcher = "waiting" /\ sigChan > 0
  /\ sigChan' = sigChan - 1
  /\ ctx' = "cancelled"
  /\ watcherCancels' = watcherCancels + 1
  /\ watcher' = "exited"
  /\ UNCHANGED <<pc, setupVars, profiler, constructVars, notify, sigCount,
                 sigDuringRun, srvVars, runErr, exit, fatalCount, printed>>
  /\ UNCHANGED pipeVars

\* Server.Run returns on its own, without cancellation (for instance the
\* listening address cannot be bound).
serverRunFails ==
  /\ exit = "running" /\ srv = "running"
  /\ \E e \in {Nil, "bind error"} : srvResult' = e
  /\ srv' = "returned"
  /\ srvWhy' = "failed"
  /\ UNCHANGED <<pc, setupVars, profiler, constructVars, sigVars, runErr,
                 exit, fatalCount, printed>>
  /\ UNCHANGED pipeVars

\* Server.Run observes the cancelled context: receivers stop accepting
\* and the pipeline starts to drain.
serverRunCancelled ==
  /\ exit = "running" /\ srv = "running" /\ ctx = "cancelled"
  /\ srv' = "draining"
  /\ UNCHANGED <<pc, setupVars, profiler, constructVars, sigVars, srvResult,
                 srvWhy, runErr, exit, fatalCount, printed>>
  /\ UNCHANGED pipeVars

\* The drain completes and Server.Run returns the context's error.
serverRunDrained ==
  /\ exit = "running" /\ srv = "draining"
  /\ srvResult' = Canceled
  /\ srv' = "returned"
  /\ srvWhy' = "drained"
  /\ UNCHANGED <<pc, setupVars, profiler, constructVars, sigVars, runErr,
                 exit, fatalCount, printed>>
  /\ UNCHANGED pipeVars

\* The shutdown timeout elapses before the drain completes.
serverRunTimeout ==
  /\ exit = "running" /\ srv = "draining"
  /\ srvResult' = Canceled
  /\ srv' = "returned"
  /\ srvWhy' = "timeout"
  /\ UNCHANGED <<pc, setupVars, profiler, constructVars, sigVars, runErr,
                 exit, fatalCount, printed>>
  /\ UNCHANGED pipeVars

LifeNext ==
  \/ setupConfiguration
  \/ mainConfigError
  \/ mainVersion
  \/ runStart
  \/ profilerFails
  \/ newCloudHandlerFactory
  \/ initCloudProvider
  \/ getBackendNames
  \/ initBackendStep
  \/ createServer
  \/ runConstructFailed
  \/ cancelOnInterrupt
  \/ serverRunCall
  \/ runAfterServer
  \/ mainAfterRun
  \/ signalDelivered
  \/ watcherCtxDone
  \/ watcherSignal
  \/ serverRunFails
  \/ serverRunCancelled
  \/ serverRunDrained
  \/ serverRunTimeout

\* ------------------------------------------------------- ingestion queue
\* Bounds of the queue specification.
MaxCapacity == 3
MaxOffered == 5

\* Parsed records the parsers hand to the dispatcher.
Items == {"foo.bar:1|c", "foo.gauge:5|g"}

QueueIdle ==
  /\ maxQueueSize = 1
  /\ queue = <<>>
  /\ dropCount = 0
  /\ offered = 0
  /\ lastEnqueue = "none"

QueueInit ==
  /\ maxQueueSize \in 1..MaxCapacity
  /\ queue = <<>>
  /\ dropCount = 0
  /\ offered = 0
  /\ lastEnqueue = "none"

\* Variant of Enqueue that makes room by discarding the oldest item.
EnqueueDropOldest(item) ==
  /\ offered < MaxOffered
  /\ offered' = offered + 1
  /\ IF Len(queue) < maxQueueSize
       THEN /\ queue' = Append(queue, item)
            /\ lastEnqueue' = "accepted"
            /\ UNCHANGED dropCount
       ELSE /\ queue' = Append(Tail(queue), item)
            /\ dropCount' = dropCount + 1
            /\ lastEnqueue' = "dropped"
  /\ UNCHANGED <<maxQueueSize, lifeVars, counterVars, expiryVars>>

\* Enqueue never waits: below the capacity the item is appended, at the
\* capacity the new item is dropped and the drop counter incremented.
Enqueue(item) ==
  /\ offered < MaxOffered
  /\ offered' = offered + 1
  /\ IF Len(queue) < maxQueueSize
       THEN /\ queue' = Append(queue, item)
            /\ lastEnqueue' = "accepted"
            /\ UNCHANGED dropCount
       ELSE /\ dropCount' = dropCount + 1
            /\ lastEnqueue' = "dropped"
            /\ UNCHANGED queue
  /\ UNCHANGED <<maxQueueSize, lifeVars, counterVars, expiryVars>>

EnqueueAny == \E item \in Items : Enqueue(item)

\* Dequeue is the aggregation worker's only blocking wait: it takes the
\* oldest item when there is one.
Dequeue ==
  /\ queue # <<>>
  /\ queue' = Tail(queue)
  /\ UNCHANGED <<maxQueueSize, dropCount, offered, lastEnqueue, lifeVars,
                 counterVars, expiryVars>>

QueueNext ==
  \/ EnqueueAny
  \/ Dequeue

\* ------------------------------------------------------ counter aggregation
\* Bounds of the counter specification.
MaxWindow == 2
MaxFlushes == 2

CounterIds == {"foo.bar", "baz"}
Increments == {1, 2}

RECURSIVE SumSeq(_)
SumSeq(s) == IF s = <<>> THEN 0 ELSE Head(s) + SumSeq(Tail(s))

\* Number of increments folded since the last flush, over the identities S.
RECURSIVE WindowLen(_)
WindowLen(S) ==
  IF S = {} THEN 0
  ELSE LET id == CHOOSE x \in S : TRUE
       IN Len(windowIncs[id]) + WindowLen(S \ {id})

CounterInit ==
  /\ counters = [id \in {} |-> [value |-> 0, total |-> 0]]
  /\ emitted = [id \in {} |-> [delta |-> 0, total |-> 0]]
  /\ windowIncs = [id \in CounterIds |-> <<>>]
  /\ flushedIncs = [id \in CounterIds |-> <<>>]
  /\ deltas = [id \in CounterIds |-> <<>>]
  /\ flushes = 0

\* The worker folds one counter increment: look up or create the
\* identity's state, add to the per-window value and to the total.
FoldCounter(id, inc) ==
  /\ WindowLen(CounterIds) < MaxWindow
  /\ LET old == IF id \in DOMAIN counters THEN counters[id]
                ELSE [value |-> 0, total |-> 0]
         new == [value |-> old.value + inc, total |-> old.total + inc]
     IN counters' = [i \in DOMAIN counters \cup {id} |->
                       IF i = id THEN new ELSE counters[i]]
  /\ windowIncs' = [windowIncs EXCEPT ![id] = Append(@, inc)]
  /\ UNCHANGED <<emitted, flushedIncs, deltas, flushes, lifeVars, queueVars,
                 expiryVars>>

Fold == \E id \in CounterIds, inc \in Increments : FoldCounter(id, inc)

\* Variant of Flush that emits the snapshot and forgets the reset.
FlushNoReset ==
  /\ flushes < MaxFlushes
  /\ flushes' = flushes + 1
  /\ emitted' = [id \in DOMAIN counters |->
                   [delta |-> counters[id].value,
                    total |-> counters[id].total]]
  /\ UNCHANGED counters
  /\ flushedIncs' = windowIncs
  /\ windowIncs' = [id \in CounterIds |-> <<>>]
  /\ deltas' = [id \in CounterIds |->
                  IF id \in DOMAIN counters
                    THEN Append(deltas[id], counters[id].value)
                    ELSE deltas[id]]
  /\ UNCHANGED <<lifeVars, queueVars, expiryVars>>

\* The flush: the snapshot carries every identity's per-window value as
\* its delta together with the total since start, then the per-window
\* value is reset to zero.
Flush ==
  /\ flushes < MaxFlushes
  /\ flushes' = flushes + 1
  /\ emitted' = [id \in DOMAIN counters |->
                   [delta |-> counters[id].value,
                    total |-> counters[id].total]]
  /\ counters' = [id \in DOMAIN counters |->
                    [counters[id] EXCEPT !.value = 0]]
  /\ flushedIncs' = windowIncs
  /\ windowIncs' = [id \in CounterIds |-> <<>>]
  /\ deltas' = [id \in CounterIds |->
                  IF id \in DOMAIN counters
                    THEN Append(deltas[id], counters[id].value)
                    ELSE deltas[id]]
  /\ UNCHANGED <<lifeVars, queueVars, expiryVars>>

CounterNext ==
  \/ Fold
  \/ Flush

\* --------------------------------------------------------------- expiry
\* Bounds of the expiry specification.
MaxTime == 4
MaxInterval == 2
MaxSnapshots == 2

Identities == {"foo.bar", "foo.gauge"}
KindOf(id) == IF id = "foo.gauge" THEN "gauge" ELSE "counter"
Kinds == {"counter", "gauge"}

ExpiryIdle ==
  /\ now = 0
  /\ expiryInterval = [k \in Kinds |-> 1]
  /\ lastSeen = [id \in {} |-> 0]
  /\ snapshotIds = {}
  /\ snapshots = 0
  /\ lastActivity = [id \in Identities |-> -1]
  /\ activeSinceCheck = {}

\* main.go hands the Server one ExpiryInterval, so every kind gets the
\* same interval, of at least one scan period.
ExpiryInit ==
  /\ now = 0
  /\ \E d \in 1..MaxInterval : expiryInterval = [k \in Kinds |-> d]
  /\ lastSeen = [id \in {} |-> 0]
  /\ snapshotIds = {}
  /\ snapshots = 0
  /\ lastActivity = [id \in Identities |-> -1]
  /\ activeSinceCheck = {}

\* Variant of isExpired that already expires at the interval itself.
isExpiredAtInterval(id, t) ==
  t - lastSeen[id] >= expiryInterval[KindOf(id)]

\* An identity is expired when it was last seen longer ago than the
\* expiry interval of its kind.
isExpired(id, t) ==
  t - lastSeen[id] > expiryInterval[KindOf(id)]

\* A metric of the identity is folded: its state is looked up or created
\* and its last-seen time set to the current time.
Activity(id) ==
  /\ lastSeen' = [i \in DOMAIN lastSeen \cup {id} |->
                    IF i = id THEN now ELSE lastSeen[i]]
  /\ lastActivity' = [lastActivity EXCEPT ![id] = now]
  /\ activeSinceCheck' = activeSinceCheck \cup {id}
  /\ UNCHANGED <<now, expiryInterval, snapshotIds, snapshots, lifeVars,
                 queueVars, counterVars>>

ActivityAny == \E id \in Identities : Activity(id)

\* One period of the expiry scan elapses and the scan removes every
\* expired identity of the shard.
ExpiryScan ==
  /\ now < MaxTime
  /\ now' = now + 1
  /\ lastSeen' = [id \in {i \in DOMAIN lastSeen : ~isExpired(i, now + 1)} |->
                    lastSeen[id]]
  /\ activeSinceCheck' = {}
  /\ UNCHANGED <<expiryInterval, snapshotIds, snapshots, lastActivity,
                 lifeVars, queueVars, counterVars>>

\* The flush takes the snapshot of the shard.
Snapshot ==
  /\ snapshots < MaxSnapshots
  /\ snapshots' = snapshots + 1
  /\ snapshotIds' = DOMAIN lastSeen
  /\ UNCHANGED <<now, expiryInterval, lastSeen, lastActivity,
                 activeSinceCheck, lifeVars, queueVars, counterVars>>

ExpiryNext ==
  \/ ActivityAny
  \/ ExpiryScan
  \/ Snapshot

Init == LifeInit /\ QueueIdle /\ CounterInit /\ ExpiryIdle
Next == LifeNext
Spec == Init /\ [][Next]_vars

QueueSpecInit == LifeInit /\ QueueInit /\ CounterInit /\ ExpiryIdle
QueueSpec == QueueSpecInit /\ [][QueueNext]_vars

CounterSpecInit == LifeInit /\ QueueIdle /\ CounterInit /\ ExpiryIdle
CounterSpec == CounterSpecInit /\ [][CounterNext]_vars

ExpirySpecInit == LifeInit /\ QueueIdle /\ CounterInit /\ ExpiryInit
ExpirySpec == ExpirySpecInit /\ [][ExpiryNext]_vars

\* The scheduler runs every goroutine that can take a step; the signals,
\* the profiler's failure and a failure of Server.Run on its own are not
\* forced to happen.
FairSpec ==
  /\ Spec
  /\ WF_vars(setupConfiguration) /\ WF_vars(mainConfigError)
  /\ WF_vars(mainVersion) /\ WF_vars(runStart)
  /\ WF_vars(newCloudHandlerFactory) /\ WF_vars(initCloudProvider)
  /\ WF_vars(getBackendNames) /\ WF_vars(initBackendStep)
  /\ WF_vars(createServer) /\ WF_vars(runConstructFailed)
  /\ WF_vars(cancelOnInterrupt) /\ WF_vars(serverRunCall)
  /\ WF_vars(runAfterServer) /\ WF_vars(mainAfterRun)
  /\ WF_vars(watcherCtxDone \/ watcherSignal)
  /\ WF_vars(serverRunCancelled)
  /\ WF_vars(serverRunDrained \/ serverRunTimeout)

IsPrefix(s, t) ==
  /\ Len(s) <= Len(t)
  /\ \A i \in 1..Len(s) : s[i] = t[i]

\* C1: when constructServer fails, run returns that very error, Server.Run
\* is never invoked (no context, no Server either), and main reports the
\* error with exactly one Fatalf before it ends.
C1_StartupErrorFatal ==
  constructErr # Nil =>
    /\ server = NoServer /\ srv = "idle" /\ ctx = "none" /\ ~notify
    /\ (pc \in {"afterRun", "done"} => runErr = constructErr)
    /\ fatalCount = (IF pc = "done" THEN 1 ELSE 0)
    /\ (pc = "done" => exit = "fatal")

C1_Witness ==
  /\ pc = "done" /\ constructErr = "strconv:x" /\ runErr = "strconv:x"
  /\ exit = "fatal" /\ fatalCount = 1

C2_NoEarlyCancel ==
  ctx = "cancelled" => (sigCount > 0 \/ pc \in {"afterRun", "done"})

\* C2: the context handed to Server.Run is cancelled only after a signal
\* has arrived or run has returned, and a signal delivered while Server.Run
\* is executing always leads to the cancellation of that context.
C2_SingleCancellation ==
  /\ []C2_NoEarlyCancel
  /\ (sigDuringRun ~> (ctx = "cancelled"))

C2_Witness ==
  /\ sigDuringRun /\ srv = "running" /\ ctx = "cancelled"
  /\ watcherCancels = 1 /\ pc = "inRun"

C3_NoEarlyExit ==
  (exit # "running" /\ watcherCancels > 0) =>
    (srv = "returned" /\ srvWhy \in {"drained", "timeout", "failed"})

\* C3: once the watcher has cancelled the context the process does not end
\* before Server.Run has returned (its drain completed or its shutdown
\* timeout elapsed), and after a signal delivered during Server.Run the
\* process does end.
C3_ExitAfterDrain ==
  /\ []C3_NoEarlyExit
  /\ (sigDuringRun ~> (exit # "running"))

C3_Witness ==
  /\ exit = "returned" /\ watcherCancels = 1 /\ sigDuringRun
  /\ srvWhy = "timeout"

\* C7 as stated: with the version flag on the command line the program
\* prints the version, constructs and starts nothing and never ends in a
\* fatal error.
C7_Original ==
  versionFlag =>
    /\ cloud = "unset" /\ ~cloudInited /\ initLog = <<>> /\ server = NoServer
    /\ srv = "idle" /\ ctx = "none"
    /\ fatalCount = 0
    /\ (pc = "done" => printed /\ exit = "returned")

\* C7: with the version flag on the command line the program constructs no
\* server, initialises no backend and no cloud provider and never starts
\* Server.Run; when setupConfiguration returns no error it prints the
\* version and returns without a fatal error.
C7_VersionOnly ==
  versionFlag =>
    /\ cloud = "unset" /\ ~cloudInited /\ initLog = <<>> /\ server = NoServer
    /\ srv = "idle" /\ ctx = "none"
    /\ pc \in {"main", "done"}
    /\ (setupErr = Nil =>
          /\ fatalCount = 0
          /\ (pc = "done" => printed /\ exit = "returned"))

C7_Witness ==
  versionFlag /\ setupErr = Nil /\ pc = "done" /\ printed
  /\ exit = "returned"

\* C8: once Server.Run has returned, run returns nil exactly when the
\* result is nil or context.Canceled and a "server error" otherwise; main
\* ends fatally exactly for the non-nil case, so a drain that followed the
\* watcher's cancellation is not reported as a failure.
C8_OnlyServerErrorsFatal ==
  (srv = "returned" /\ pc \in {"afterRun", "done"}) =>
    /\ (runErr = Nil) <=> (srvResult \in {Nil, Canceled})
    /\ (srvResult \notin {Nil, Canceled} =>
          runErr = "server error: " \o srvResult)
    /\ (pc = "done" => ((exit = "fatal") <=> (runErr # Nil)))
    /\ (srvWhy \in {"drained", "timeout"} => exit # "fatal")

C8_Witness ==
  /\ pc = "done" /\ srvResult = Canceled /\ srvWhy = "drained"
  /\ runErr = Nil /\ exit = "returned"

\* C9: backends are initialised one at a time in configuration order and
\* only after the cloud stage; the first failing backend ends the
\* construction with its error, no Server and no later InitBackend; a
\* constructed Server holds one backend per configured name, in order.
C9_BackendsInOrder ==
  /\ IsPrefix(initLog, backendNames)
  /\ (initLog # <<>> =>
        cloud # "unset" /\ (cloud = "factory" => cloudInited))
  /\ \A i \in 1..Len(initLog) :
       InitBackend(initLog[i]).err # Nil =>
         /\ i = Len(initLog)
         /\ constructErr = InitBackend(initLog[i]).err
         /\ server = NoServer
  /\ (server # NoServer =>
        /\ initLog = backendNames
        /\ Len(server[1].Backends) = Len(backendNames)
        /\ \A i \in 1..Len(backendNames) :
             server[1].Backends[i] = InitBackend(backendNames[i]).backend)

C9_Witness ==
  /\ server # NoServer /\ cloudInited
  /\ backendNames = <<"stdout", "graphite">>
  /\ server[1].Backends = <<"stdout", "graphite">>

C10_AtMostOnce == watcherCancels <= 1

C10_ExitedStaysInert ==
  watcher = "exited" =>
    /\ watcher' = "exited"
    /\ watcherCancels' = watcherCancels
    /\ (sigCount' # sigCount =>
          UNCHANGED <<pc, ctx, srvVars, runErr, exit, fatalCount>>)

\* C10: the watcher goroutine calls f() at most once; once it has exited
\* it stays so and a later signal changes nothing but the channel; and
\* whenever a signal is buffered or the context is done while it waits, it
\* exits (at the latest with the process).
C10_WatcherTerminates ==
  /\ []C10_AtMostOnce
  /\ [][C10_ExitedStaysInert]_vars
  /\ ((watcher = "waiting" /\ (sigChan > 0 \/ ctx = "cancelled"))
        ~> (watcher = "exited" \/ exit # "running"))

C10_Witness ==
  /\ watcher = "exited" /\ watcherCancels = 1 /\ sigCount = 2
  /\ sigChan = 1 /\ exit = "running"
\* C4, state part: the per-window value of every counter is the sum of the
\* increments folded since the last flush, the delta of the last snapshot
\* is the sum of the increments of the window it closed, and its total is
\* the sum of all deltas flushed so far.
C4_WindowExact ==
  /\ \A id \in DOMAIN counters :
       counters[id].value = SumSeq(windowIncs[id])
  /\ \A id \in DOMAIN emitted :
       /\ emitted[id].delta = SumSeq(flushedIncs[id])
       /\ emitted[id].total = SumSeq(deltas[id])

C4_Reset ==
  flushes' # flushes =>
    /\ DOMAIN emitted' = DOMAIN counters
    /\ \A id \in DOMAIN counters' : counters'[id].value = 0

C5_Bounded == Len(queue) <= maxQueueSize

C5_NeverBlocks == offered < MaxOffered => ENABLED EnqueueAny

C5_FullDrops ==
  (offered' # offered /\ Len(queue) = maxQueueSize) =>
    /\ queue' = queue
    /\ dropCount' > dropCount
    /\ lastEnqueue' = "dropped"

\* C5: the queue never holds more than its capacity, an enqueue attempt is
\* possible in every state, and an attempt on a full queue leaves the
\* queue as it is, drops the new item and increases the drop counter.
C5_EnqueueNonBlocking ==
  /\ [](C5_Bounded /\ C5_NeverBlocks)
  /\ [][C5_FullDrops]_vars

C5_Witness ==
  /\ maxQueueSize = 2
  /\ queue = <<"foo.bar:1|c", "foo.gauge:5|g">>
  /\ lastEnqueue = "dropped" /\ dropCount = 2

Inactive(id, t) ==
  lastActivity[id] = -1 \/ t - lastActivity[id] > expiryInterval[KindOf(id)]

C6_SnapshotExact ==
  snapshots' # snapshots =>
    \A id \in Identities : (id \notin snapshotIds') <=> Inactive(id, now)

C6_ActivityResets ==
  \A id \in Identities :
    lastActivity'[id] # lastActivity[id] =>
      id \in DOMAIN lastSeen' /\ lastSeen'[id] = now

C6_NoActiveRemoved ==
  \A id \in DOMAIN lastSeen :
    id \notin DOMAIN lastSeen' =>
      id \notin activeSinceCheck /\ Inactive(id, now')

====
